---- MODULE Spec2Model ----
(***************************************************************************)
(* The layer rotation engine of RubiksCube3D (src/unnamed/part_000):       *)
(* rotateFace -> rotateLayer -> animateRotation, with the 27 cubie meshes, *)
(* the pivot, the busy flag isAnimatingRef and the onMoveComplete prop.    *)
(*                                                                         *)
(* Lengths are integers in hundredths of a world unit (1.02 is 102) and    *)
(* angles are integers in degrees (Math.PI/2 is 90).  The floating-point   *)
(* error of the matrix products of attach() is a nondeterministic offset   *)
(* of at most Drift hundredths / degrees, chosen anew at every cleanup.    *)
(***************************************************************************)
EXTENDS Integers, Sequences, FiniteSets, TLC

\* ---------------------------------------------------------------- bounds
MaxMoves == 2      \* moves accepted in one behaviour of Spec
MaxSeq == 2        \* freely chosen moves in one behaviour of SpecSeq
MaxDuration == 2   \* largest duration a caller passes; the clock is followed that far
Drift == 1         \* largest floating-point error, in hundredths and in degrees

\* ------------------------------------------------------- program constants
TOTAL_SIZE == 102  \* CUBE_SIZE + SPACING, the spacing the cube is built with
TargetUnit == 102  \* index * (1 + 0.02) in the layer filter
Threshold == 50    \* the 0.5 of the layer filter
SnapUnit == 102    \* the 1.02 the positions are snapped to
QuarterTurn == 90  \* Math.PI / 2

Cubies == 1..27
Axes == {"x", "y", "z"}
ValidFaces == {"R", "L", "U", "D", "F", "B"}
Faces == ValidFaces \cup {""}
Durations == {-MaxDuration, 0, MaxDuration}   \* negative, zero and positive
SeqDurations == {0, MaxDuration}              \* the durations of a move that completes
MaxElapsed == MaxDuration
DriftRange == (-Drift)..Drift

VARIABLES
  cubies,          \* cubiesRef.current: per mesh its position, rotation (Euler XYZ) and parent
  pivot,           \* pivotRef.current: rotation and position
  isAnimating,     \* isAnimatingRef.current, the busy flag
  move,            \* the arguments of the rotateLayer call in flight (its closure)
  activeCubies,    \* the activeCubies of the rotateLayer call in flight
  elapsed,         \* Date.now() - startTime at the latest run of animateRotation
  pendingFrames,   \* animateRotation callbacks handed to requestAnimationFrame, not yet run
  onMoveComplete,  \* whether the host passed the onMoveComplete prop
  callbacks,       \* the onMoveComplete invocations under way (ids of their moves), innermost last
  moveLog,         \* the accepted moves in order of acceptance
  snaps,           \* SpecSeq only: cubies as they were when each of the last 4 moves was accepted
  firedLog,        \* ids of the moves whose onMoveComplete was called, in call order
  resolvedLog,     \* ids of the moves whose promise was resolved with true, in order
  ret              \* what the rotateFace call of the last step returned; "none" after any other step

vars == <<cubies, pivot, isAnimating, move, activeCubies, elapsed, pendingFrames,
          onMoveComplete, callbacks, moveLog, snaps, firedLog, resolvedLog, ret>>

NoMove == [axis |-> "", index |-> 0, direction |-> 0, duration |-> 0, id |-> 0]

\* ------------------------------------------------------------ arithmetic
Abs(n) == IF n < 0 THEN -n ELSE n

\* a variant of MathRound that rounds down, as Math.floor would
MathRound_Floor(n, d) == n \div d

\* Math.round(n / d) for d > 0: the nearest integer, halves upwards
MathRound(n, d) == (2 * n + d) \div (2 * d)

\* n / d truncated to an integer number of degrees
Trunc(n, d) == IF n >= 0 THEN n \div d ELSE -((-n) \div d)

Cube(n) == n * n * n

Cos(a) == CASE a % 360 = 0 -> 1
            [] a % 360 = 90 -> 0
            [] a % 360 = 180 -> -1
            [] a % 360 = 270 -> 0

Sin(a) == CASE a % 360 = 0 -> 0
            [] a % 360 = 90 -> 1
            [] a % 360 = 180 -> 0
            [] a % 360 = 270 -> -1

\* Math.atan2(y, x) in degrees, for the entries of an axis-aligned rotation
Atan2(y, x) == CASE y = 0 /\ x >= 0 -> 0
                 [] y > 0 /\ x = 0 -> 90
                 [] y = 0 /\ x < 0 -> 180
                 [] y < 0 /\ x = 0 -> -90

\* Math.asin(v) in degrees, v clamped to [-1, 1]
Asin(v) == IF v >= 1 THEN 90 ELSE IF v <= -1 THEN -90 ELSE 0

AxisNo(axis) == CASE axis = "x" -> 1 [] axis = "y" -> 2 [] axis = "z" -> 3

\* ------------------------------------------------ three.js transforms
\* Matrix4.makeRotationFromEuler, order XYZ: the rows of the rotation, from the
\* cosines a, c, e and the sines b, d, f of the angles about x, y and z
RotationFromTrig(a, b, c, d, e, f) ==
  << << c * e,             -(c * f),          d        >>,
     << a * f + b * e * d,  a * e - b * f * d, -(b * c) >>,
     << b * f - a * e * d,  b * e + a * f * d,  a * c   >> >>

MatrixFromEuler(r) ==
  RotationFromTrig(Cos(r[1]), Sin(r[1]), Cos(r[2]), Sin(r[2]), Cos(r[3]), Sin(r[3]))

\* the inner product of the vectors u and v
Dot(u, v) == u[1] * v[1] + u[2] * v[2] + u[3] * v[3]

\* column j of the matrix n
Column(n, j) == << n[1][j], n[2][j], n[3][j] >>

MatVec(m, v) == << Dot(m[1], v), Dot(m[2], v), Dot(m[3], v) >>

\* row u of the left factor times the columns a, b, c of the right factor
RowTimes(u, a, b, c) == << Dot(u, a), Dot(u, b), Dot(u, c) >>

MatMulColumns(m, a, b, c) ==
  << RowTimes(m[1], a, b, c), RowTimes(m[2], a, b, c), RowTimes(m[3], a, b, c) >>

MatMul(m, n) == MatMulColumns(m, Column(n, 1), Column(n, 2), Column(n, 3))

\* Euler.setFromRotationMatrix, order XYZ
EulerFromMatrix(m) ==
  IF Abs(m[1][3]) < 1
  THEN << Atan2(-m[2][3], m[3][3]), Asin(m[1][3]), Atan2(-m[1][2], m[1][1]) >>
  ELSE << Atan2(m[3][2], m[2][2]), Asin(m[1][3]), 0 >>

\* an angle Math.atan2 returns, with error da: the result stays in [-180, 180]
WrapAngle(a) == IF a > 180 THEN a - 360 ELSE IF a < -180 THEN a + 360 ELSE a

\* an angle Math.asin returns, with error da: the result stays in [-90, 90]
ClampAngle(a) == IF a > 90 THEN 90 ELSE IF a < -90 THEN -90 ELSE a

\* Object3D.getWorldPosition: the scene is at the identity, the pivot at the origin
WorldPosition(c, pv) ==
  IF c.parent = "pivot"
  THEN MatVec(MatrixFromEuler(pv.rotation), c.position)
  ELSE c.position

\* the value of the table t at k where it has one, and v, the same value, elsewhere
Memo(t, k, v) == IF k \in DOMAIN t THEN t[k] ELSE v

\* -------------------------------------------------------- construction
InitCubie(i) ==
  LET k == i - 1
  IN [position |-> << ((k \div 9) - 1) * TOTAL_SIZE,
                      (((k \div 3) % 3) - 1) * TOTAL_SIZE,
                      ((k % 3) - 1) * TOTAL_SIZE >>,
      rotation |-> <<0, 0, 0>>,
      parent |-> "scene"]

InitCubies == [i \in Cubies |-> InitCubie(i)]

Init ==
  /\ cubies = InitCubies
  /\ pivot = [rotation |-> <<0, 0, 0>>, position |-> <<0, 0, 0>>]
  /\ isAnimating = FALSE
  /\ move = NoMove
  /\ activeCubies = {}
  /\ elapsed = 0
  /\ pendingFrames = 0
  /\ onMoveComplete \in BOOLEAN
  /\ callbacks = <<>>
  /\ moveLog = <<>>
  /\ snaps = <<>>
  /\ firedLog = <<>>
  /\ resolvedLog = <<>>
  /\ ret = "none"

\* ------------------------------------------------------------ rotateFace
\* a variant of FaceTable in which L turns the way R does
FaceTable_Wrong(face) ==
  CASE face = "R" -> [axis |-> "x", index |-> 1,  dir |-> -1]
    [] face = "L" -> [axis |-> "x", index |-> -1, dir |-> -1]
    [] face = "U" -> [axis |-> "y", index |-> 1,  dir |-> -1]
    [] face = "D" -> [axis |-> "y", index |-> -1, dir |-> 1]
    [] face = "F" -> [axis |-> "z", index |-> 1,  dir |-> -1]
    [] face = "B" -> [axis |-> "z", index |-> -1, dir |-> 1]

\* the switch of rotateFace: the axis, index and dir of each face
FaceTable(face) ==
  CASE face = "R" -> [axis |-> "x", index |-> 1,  dir |-> -1]
    [] face = "L" -> [axis |-> "x", index |-> -1, dir |-> 1]
    [] face = "U" -> [axis |-> "y", index |-> 1,  dir |-> -1]
    [] face = "D" -> [axis |-> "y", index |-> -1, dir |-> 1]
    [] face = "F" -> [axis |-> "z", index |-> 1,  dir |-> -1]
    [] face = "B" -> [axis |-> "z", index |-> -1, dir |-> 1]

\* a variant of Resolve that leaves dir as it is when invert is set
Resolve_IgnoreInvert(face, invert) ==
  [axis |-> FaceTable(face).axis, index |-> FaceTable(face).index,
   direction |-> FaceTable(face).dir]

\* if (invert) dir *= -1
Resolve(face, invert) ==
  LET t == FaceTable(face)
  IN [axis |-> t.axis, index |-> t.index,
      direction |-> IF invert THEN t.dir * (-1) ELSE t.dir]

\* ----------------------------------------------------------- rotateLayer
\* a variant of InLayer without the Math.abs
InLayer_NoAbs(c, pv, axis, index) ==
  IF axis \in Axes
  THEN WorldPosition(c, pv)[AxisNo(axis)] - index * TargetUnit < Threshold
  ELSE FALSE

\* the predicate of cubies.filter
InLayer(c, pv, axis, index) ==
  IF axis \in Axes
  THEN Abs(WorldPosition(c, pv)[AxisNo(axis)] - index * TargetUnit) < Threshold
  ELSE FALSE

\* the members of S, enumerated once
Enumerated(S) == {i : i \in S}

SelectLayer(cs, pv, axis, index) ==
  Enumerated({i \in Cubies : InLayer(cs[i], pv, axis, index)})

\* pivot.rotation.set(0, 0, 0); pivot.position.set(0, 0, 0)
ResetPivot(pv) == [rotation |-> <<0, 0, 0>>, position |-> <<0, 0, 0>>]

\* a variant of AttachToPivot that hangs every mesh from the pivot
AttachToPivot_All(cs, act) ==
  [i \in Cubies |-> [cs[i] EXCEPT !.parent = "pivot"]]

\* pivot.attach(mesh) for each active mesh.  The pivot was reset just before and
\* the mesh hangs from the scene, so the local transform it is given is its
\* world transform, unchanged.
AttachToPivot(cs, act) ==
  [i \in Cubies |-> IF i \in act THEN [cs[i] EXCEPT !.parent = "pivot"] ELSE cs[i]]

\* -------------------------------------------------------- animateRotation
\* progress < 1, with progress = Math.min((now - startTime) / duration, 1).
\* A duration of 0 makes progress NaN (0 / 0), and NaN < 1 is false.
ProgressBelowOne(e, duration) ==
  /\ duration # 0
  /\ IF duration > 0 THEN e < duration ELSE e > duration

\* progress as the fraction ProgressNum / Abs(duration), for duration # 0
ProgressNum(e, duration) ==
  LET n == IF duration > 0 THEN e ELSE -e
  IN IF n < Abs(duration) THEN n ELSE Abs(duration)

\* eased = 1 - Math.pow(1 - progress, 3), as EasedNum / Abs(duration)^3
EasedNum(e, duration) ==
  Cube(Abs(duration)) - Cube(Abs(duration) - ProgressNum(e, duration))

\* targetRotation = (Math.PI / 2) * direction
TargetRotation(direction) == QuarterTurn * direction

\* currentAngle = targetRotation * eased, in whole degrees
CurrentAngle(direction, e, duration) ==
  Trunc(TargetRotation(direction) * EasedNum(e, duration), Cube(Abs(duration)))

\* a variant of SetAxis that turns the pivot about x whatever the axis
SetAxis_AlwaysX(pv, axis, angle) == [pv EXCEPT !.rotation[1] = angle]

\* if (axis === 'x') pivot.rotation.x = angle; ... y ...; ... z ...
SetAxis(pv, axis, angle) ==
  IF axis \in Axes
  THEN [pv EXCEPT !.rotation[AxisNo(axis)] = angle]
  ELSE pv

\* the Euler angles three.js hands back after decomposing the matrix m, where e
\* are the exact ones, off by d; in the gimbal branch z is set to 0 as it is
DriftedEuler(m, e, d) ==
  << WrapAngle(e[1] + d),
     ClampAngle(e[2] + d),
     IF Abs(m[1][3]) < 1 THEN WrapAngle(e[3] + d) ELSE 0 >>

EulerWithDrift(m, d) == DriftedEuler(m, EulerFromMatrix(m), d)

DriftedPosition(p, d) == << p[1] + d, p[2] + d, p[3] + d >>

\* sceneRef.current.attach(mesh), for a mesh at p with rotation r under the pivot
\* rotated by pr: the mesh keeps its world transform, now as its local one, up to
\* the error d of the matrix products
AttachedPosition(p, pr, d) == DriftedPosition(MatVec(MatrixFromEuler(pr), p), d)

AttachedRotation(r, pr, d) ==
  EulerWithDrift(MatMul(MatrixFromEuler(pr), MatrixFromEuler(r)), d)

\* a variant of SnapPosition that leaves the position as attach() computed it
SnapPosition_None(p) == p

\* mesh.position.x = Math.round(mesh.position.x / 1.02) * 1.02, and y, z
SnapPosition(p) ==
  << MathRound(p[1], SnapUnit) * SnapUnit,
     MathRound(p[2], SnapUnit) * SnapUnit,
     MathRound(p[3], SnapUnit) * SnapUnit >>

\* mesh.rotation.x = Math.round(mesh.rotation.x / (Math.PI/2)) * (Math.PI/2), and y, z
SnapRotation(r) ==
  << MathRound(r[1], QuarterTurn) * QuarterTurn,
     MathRound(r[2], QuarterTurn) * QuarterTurn,
     MathRound(r[3], QuarterTurn) * QuarterTurn >>

\* attach and snap, for the position and for the rotation of a mesh
CleanPosition(p, pr, d) == SnapPosition(AttachedPosition(p, pr, d))

CleanRotation(r, pr, d) == SnapRotation(AttachedRotation(r, pr, d))

\* the arguments the cleanup meets: grid points, right angles, quarter turns of
\* the pivot about one axis
Cubed(S) == S \X S \X S

GridPoints == Cubed({-SnapUnit, 0, SnapUnit})

RightAngles == Cubed({-2 * QuarterTurn, -QuarterTurn, 0, QuarterTurn, 2 * QuarterTurn})

PivotTurns ==
  {pr \in Cubed({-QuarterTurn, 0, QuarterTurn}) :
     Cardinality({k \in 1..3 : pr[k] # 0}) = 1}

\* CleanPosition and CleanRotation, evaluated once for each of these arguments
CleanPositionTable ==
  [t \in PivotTurns \X DriftRange |->
     [p \in GridPoints |-> CleanPosition(p, t[1], t[2])] @@ <<>>] @@ <<>>

CleanRotationTable ==
  [t \in PivotTurns \X DriftRange |->
     [r \in RightAngles |-> CleanRotation(r, t[1], t[2])] @@ <<>>] @@ <<>>

\* one turn of the forEach of the cleanup, for a mesh that hangs from the pivot,
\* with the tables pt and rt of the turn of the pivot and the error
CleanMeshWith(c, pt, rt, pr, d) ==
  [position |-> Memo(pt, c.position, CleanPosition(c.position, pr, d)),
   rotation |-> Memo(rt, c.rotation, CleanRotation(c.rotation, pr, d)),
   parent |-> "scene"]

\* a variant of CleanMesh that snaps the mesh and leaves it under the pivot
CleanMesh_StillAttached(c, pr, d) ==
  [CleanMeshWith(c, Memo(CleanPositionTable, <<pr, d>>, <<>>),
                 Memo(CleanRotationTable, <<pr, d>>, <<>>), pr, d)
     EXCEPT !.parent = "pivot"]

CleanMesh(c, pr, d) ==
  CleanMeshWith(c, Memo(CleanPositionTable, <<pr, d>>, <<>>),
                Memo(CleanRotationTable, <<pr, d>>, <<>>), pr, d)

\* the activeCubies.forEach of the cleanup, with the pivot at its exact angle;
\* the active meshes are the ones that were attached to the pivot
Cleanup(cs, act, pv, d) ==
  [i \in Cubies |-> IF i \in act THEN CleanMesh(cs[i], pv.rotation, d) ELSE cs[i]]

\* a variant of FinalPivot that leaves the pivot at the angle of the last frame
FinalPivot_AsIs(pv, mv) == pv

\* pivot.rotation.{x,y,z} = targetRotation: the pivot snapped to its exact end angle
FinalPivot(pv, mv) == SetAxis(pv, mv.axis, TargetRotation(mv.direction))

\* a variant of Finish that calls onMoveComplete before it clears the busy flag
Finish_SignalFirst(mv) ==
  IF onMoveComplete
  THEN /\ isAnimating' = TRUE
       /\ firedLog' = Append(firedLog, mv.id)
       /\ callbacks' = Append(callbacks, mv.id)
       /\ resolvedLog' = resolvedLog
  ELSE /\ isAnimating' = FALSE
       /\ resolvedLog' = Append(resolvedLog, mv.id)
       /\ UNCHANGED <<callbacks, firedLog>>

\* isAnimatingRef.current = false; if (onMoveComplete) onMoveComplete();
\* resolve(true).  The resolve of an observed move is in CallbackReturn.
Finish(mv) ==
  /\ isAnimating' = FALSE
  /\ IF onMoveComplete
     THEN /\ firedLog' = Append(firedLog, mv.id)
          /\ callbacks' = Append(callbacks, mv.id)
          /\ resolvedLog' = resolvedLog
     ELSE /\ resolvedLog' = Append(resolvedLog, mv.id)
          /\ UNCHANGED <<callbacks, firedLog>>

\* One run of animateRotation for the move mv on the cubies cs and pivot pv, at
\* e milliseconds after startTime, with pf other callbacks still pending.
AnimateRotation(mv, act, cs, pv, e, pf) ==
  IF ProgressBelowOne(e, mv.duration)
  THEN /\ pivot' = SetAxis(pv, mv.axis, CurrentAngle(mv.direction, e, mv.duration))
       /\ cubies' = cs
       /\ isAnimating' = TRUE
       /\ pendingFrames' = pf + 1
       /\ move' = mv
       /\ activeCubies' = act
       /\ elapsed' = e
       /\ UNCHANGED <<callbacks, firedLog, resolvedLog>>
  ELSE \E d \in DriftRange :
       /\ cubies' = Cleanup(cs, act, FinalPivot(pv, mv), d)
       /\ pivot' = [pv EXCEPT !.rotation = <<0, 0, 0>>]
       /\ pendingFrames' = pf
       /\ move' = NoMove
       /\ activeCubies' = {}
       /\ elapsed' = 0
       /\ Finish(mv)

\* a variant of rotateLayer that resets the pivot before it looks at the busy flag
RotateLayer_LateCheck(axis, index, direction, duration) ==
  IF isAnimating
  THEN /\ ret' = "false"
       /\ pivot' = ResetPivot(pivot)
       /\ UNCHANGED <<cubies, isAnimating, move, activeCubies, elapsed,
                      pendingFrames, callbacks, firedLog, resolvedLog>>
  ELSE /\ ret' = "promise"
       /\ AnimateRotation([axis |-> axis, index |-> index, direction |-> direction,
                           duration |-> duration, id |-> Len(moveLog) + 1],
                          SelectLayer(cubies, pivot, axis, index),
                          AttachToPivot(cubies, SelectLayer(cubies, pivot, axis, index)),
                          ResetPivot(pivot), 0, pendingFrames)

\* a variant of rotateLayer without the busy check of its first line
RotateLayer_NoBusyCheck(axis, index, direction, duration) ==
  /\ ret' = "promise"
  /\ AnimateRotation([axis |-> axis, index |-> index, direction |-> direction,
                      duration |-> duration, id |-> Len(moveLog) + 1],
                     SelectLayer(cubies, pivot, axis, index),
                     AttachToPivot(cubies, SelectLayer(cubies, pivot, axis, index)),
                     ResetPivot(pivot), 0, pendingFrames)

\* rotateLayer(axis, index, direction, duration), up to the return of its promise
RotateLayer(axis, index, direction, duration) ==
  IF isAnimating
  THEN /\ ret' = "false"
       /\ UNCHANGED <<cubies, pivot, isAnimating, move, activeCubies, elapsed,
                      pendingFrames, callbacks, firedLog, resolvedLog>>
  ELSE LET act == SelectLayer(cubies, pivot, axis, index)
           mv == [axis |-> axis, index |-> index, direction |-> direction,
                  duration |-> duration, id |-> Len(moveLog) + 1]
       IN /\ ret' = "promise"
          /\ AnimateRotation(mv, act, AttachToPivot(cubies, act), ResetPivot(pivot),
                             0, pendingFrames)

\* rotateFace(face, invert, duration)
RotateFace(face, invert, duration) ==
  IF face \notin ValidFaces
  THEN /\ ret' = "undefined"
       /\ UNCHANGED <<cubies, pivot, isAnimating, move, activeCubies, elapsed,
                      pendingFrames, onMoveComplete, callbacks, moveLog,
                      firedLog, resolvedLog>>
  ELSE LET m == Resolve(face, invert)
       IN /\ RotateLayer(m.axis, m.index, m.direction, duration)
          /\ moveLog' = IF isAnimating THEN moveLog
                        ELSE Append(moveLog, [face |-> face, invert |-> invert])
          /\ UNCHANGED onMoveComplete

\* The browser runs the animateRotation handed to requestAnimationFrame, and
\* Date.now() reads e: the clock does not run backwards.  No frame callback
\* runs while an onMoveComplete is still running.
FrameAt(e) ==
  /\ pendingFrames > 0
  /\ callbacks = <<>>
  /\ AnimateRotation(move, activeCubies, cubies, pivot, e, pendingFrames - 1)
  /\ ret' = "none"
  /\ UNCHANGED <<onMoveComplete, moveLog, snaps>>

Frame == \E e \in elapsed..MaxElapsed : FrameAt(e)

\* a frame callback that runs after the clock has advanced
FrameLater == \E e \in (elapsed + 1)..MaxElapsed : FrameAt(e)

\* onMoveComplete() returns; then resolve(true)
CallbackReturn ==
  /\ callbacks # <<>>
  /\ resolvedLog' = Append(resolvedLog, callbacks[Len(callbacks)])
  /\ callbacks' = SubSeq(callbacks, 1, Len(callbacks) - 1)
  /\ ret' = "none"
  /\ UNCHANGED <<cubies, pivot, isAnimating, move, activeCubies, elapsed, pendingFrames,
                 onMoveComplete, moveLog, snaps, firedLog>>

\* A call of rotateFace by the host, from an event handler or from inside
\* onMoveComplete.  A refused call changes nothing, so a call right after a
\* refused one would start from the same program state: one is followed.
Call ==
  \E face \in Faces, invert \in BOOLEAN, duration \in Durations :
    /\ ret \in {"none", "promise"}
    /\ isAnimating \/ Len(moveLog) < MaxMoves
    /\ RotateFace(face, invert, duration)
    /\ snaps' = snaps

Next == Call \/ Frame \/ CallbackReturn

Spec == Init /\ [][Next]_vars

\* The same program with the scheduling the browser guarantees: the clock
\* advances, pending frame callbacks are run, a running onMoveComplete returns.
SpecFair == Spec /\ WF_vars(FrameLater) /\ WF_vars(CallbackReturn)

\* A host that passes no onMoveComplete and runs moves one after the other,
\* calling rotateFace only once the promise of the previous move has resolved:
\* a first turn of its choice, then clockwise turns of its choice up to MaxSeq
\* turns in all and, at any point, turns either way of the face it turned last,
\* up to three turns more than MaxSeq in all.
LastMove == moveLog[Len(moveLog)]

Last4(s) == IF Len(s) > 4 THEN Tail(s) ELSE s

SeqCall ==
  \E face \in ValidFaces, invert \in BOOLEAN, duration \in SeqDurations :
    /\ ~isAnimating
    /\ \/ Len(moveLog) < MaxSeq /\ (Len(moveLog) = 0 \/ ~invert)
       \/ Len(moveLog) > 0 /\ Len(moveLog) < MaxSeq + 3 /\ face = LastMove.face
    /\ RotateFace(face, invert, duration)
    /\ snaps' = Last4(Append(snaps, cubies))

NextSeq == SeqCall \/ Frame

InitSeq == Init /\ ~onMoveComplete

SpecSeq == InitSeq /\ [][NextSeq]_vars

\* A caller inside the component that calls rotateLayer itself, with any axis,
\* any direction and a layer index in or out of the range -1..1 its comment names.
LayerIndices == {-2, -1, 0, 1, 2}

LayerCall ==
  \E axis \in Axes, index \in LayerIndices, direction \in {-1, 1},
     duration \in SeqDurations :
    /\ ret \in {"none", "promise"}
    /\ isAnimating \/ Len(moveLog) < MaxMoves
    /\ RotateLayer(axis, index, direction, duration)
    /\ moveLog' = IF isAnimating THEN moveLog
                  ELSE Append(moveLog, [face |-> "", invert |-> FALSE])
    /\ UNCHANGED <<onMoveComplete, snaps>>

NextLayer == LayerCall \/ Frame \/ CallbackReturn

SpecLayer == Init /\ [][NextLayer]_vars

\* ------------------------------------------------------------ properties
Range(s) == {s[k] : k \in 1..Len(s)}

Count(s, x) == Cardinality({k \in 1..Len(s) : s[k] = x})

\* a step that is a rotateFace call with one of the six faces
ValidCallStep == ret' \in {"false", "promise"}

\* some accepted move has not reached the end of its cleanup
InFlight == \E k \in 1..Len(moveLog) : k \notin (Range(firedLog) \cup Range(resolvedLog))

\* some accepted move has not had its promise resolved
Unresolved == \E k \in 1..Len(moveLog) : k \notin Range(resolvedLog)

\* both hold the same meshes at the same world position and orientation
SameWorld(a, b) ==
  \A i \in Cubies :
    /\ a[i].position = b[i].position
    /\ MatrixFromEuler(a[i].rotation) = MatrixFromEuler(b[i].rotation)

\* the last four accepted moves are the same face, turned the same way
LastFourSame ==
  /\ Len(moveLog) >= 4
  /\ \A k \in (Len(moveLog) - 3)..Len(moveLog) : moveLog[k] = LastMove

\* the last two accepted moves are a face turned clockwise, then the same face inverted
LastTwoRoundTrip ==
  /\ Len(moveLog) >= 2
  /\ moveLog[Len(moveLog) - 1].face = LastMove.face
  /\ ~moveLog[Len(moveLog) - 1].invert
  /\ LastMove.invert

UUpUUp == << [face |-> "U", invert |-> FALSE], [face |-> "U", invert |-> TRUE],
             [face |-> "U", invert |-> FALSE], [face |-> "U", invert |-> TRUE] >>

\* C1: while the busy flag is set, a rotateFace call with a valid face returns
\* false at once and changes nothing: no cubie, not the pivot, not the busy
\* flag, and nothing is scheduled or queued.
C1_BusyRejection ==
  [][(isAnimating /\ ValidCallStep) =>
       /\ ret' = "false"
       /\ UNCHANGED <<cubies, pivot, isAnimating, move, activeCubies, elapsed,
                      pendingFrames, callbacks, moveLog, firedLog, resolvedLog>>]_vars

C1_Witness == isAnimating /\ ret = "false" /\ pendingFrames > 0 /\ pivot.rotation # <<0, 0, 0>>

\* C2, as stated: a rotateFace call made after a move was accepted and before
\* that move's promise has resolved, the run of onMoveComplete included, returns
\* false and leaves every cubie as it is.
C2_UntilResolved ==
  [][(Unresolved /\ ValidCallStep) => (ret' = "false" /\ cubies' = cubies)]_vars

\* C2, amended: a rotateFace call made after a move was accepted and before the
\* cleanup of that move has cleared the busy flag returns false and leaves every
\* cubie as it is.
C2_UntilCleanup ==
  [][(InFlight /\ ValidCallStep) => (ret' = "false" /\ cubies' = cubies)]_vars

C2_Witness == ret = "false" /\ InFlight /\ elapsed > 0 /\ Len(moveLog) = 1

\* C3: whenever no move is in flight, every cubie is at a point of the grid
\* {-1.02, 0, 1.02}^3 and each of its rotation angles is a multiple of 90 degrees.
C3_DriftCorrection ==
  ~isAnimating =>
    \A i \in Cubies :
      /\ \A k \in 1..3 : WorldPosition(cubies[i], pivot)[k] \in {-TOTAL_SIZE, 0, TOTAL_SIZE}
      /\ \A k \in 1..3 : cubies[i].rotation[k] % QuarterTurn = 0

C3_Witness ==
  /\ ~isAnimating
  /\ Len(resolvedLog) >= 2
  /\ \E i \in Cubies : cubies[i].rotation[2] # 0 /\ cubies[i].position # InitCubies[i].position

\* C4: in every idle state, for each axis and each layer index in {-1, 0, 1}, the
\* layer filter selects exactly 9 cubies.
C4_NineCubies ==
  ~isAnimating =>
    \A axis \in Axes, index \in {-1, 0, 1} :
      Cardinality(SelectLayer(cubies, pivot, axis, index)) = 9

C4_Witness == ~isAnimating /\ Len(moveLog) >= 2 /\ ~SameWorld(cubies, InitCubies)

\* C5, as stated: a move that was accepted, whatever its duration, reaches its
\* cleanup, so that the busy flag, once set, is cleared again.
C5_AlwaysCompletes == isAnimating ~> ~isAnimating

\* C6, as stated: every accepted move has its promise resolved with true once
\* and, when the host observes, its onMoveComplete called once.
C6_SignalledOnce ==
  \A k \in 1..MaxMoves :
    (Len(moveLog) >= k) ~>
      (Count(resolvedLog, k) = 1 /\ (onMoveComplete => Count(firedLog, k) = 1))

\* C7, as stated: rotateFace with a face that is none of the six returns false.
C7_InvalidReturnsFalse ==
  [][\A invert \in BOOLEAN, duration \in Durations :
       RotateFace("", invert, duration) => ret' = "false"]_vars

\* C8: four completed turns of the same face the same way bring every cubie back
\* to the world position and orientation it had before the first of the four.
C8_FourFold ==
  (~isAnimating /\ LastFourSame /\ Len(snaps) = 4) => SameWorld(cubies, snaps[1])

C8_Witness ==
  /\ ~isAnimating
  /\ Len(moveLog) >= 5
  /\ LastFourSame
  /\ LastMove.invert
  /\ ~SameWorld(cubies, InitCubies)

\* C9: a completed clockwise turn of a face followed by a completed inverted turn
\* of the same face restores every cubie, and U U' U U' from the solved cube ends
\* in the solved cube.
C9_RoundTrip ==
  /\ (~isAnimating /\ LastTwoRoundTrip /\ Len(snaps) >= 2)
       => SameWorld(cubies, snaps[Len(snaps) - 1])
  /\ (~isAnimating /\ moveLog = UUpUUp) => SameWorld(cubies, InitCubies)

C9_Witness ==
  /\ ~isAnimating
  /\ Len(moveLog) = 3
  /\ LastTwoRoundTrip
  /\ moveLog[1].face # LastMove.face

\* the table of the notation: axis, layer index, direction
C10_Triple(face) ==
  CASE face = "R" -> <<"x", 1, -1>>
    [] face = "L" -> <<"x", -1, 1>>
    [] face = "U" -> <<"y", 1, -1>>
    [] face = "D" -> <<"y", -1, 1>>
    [] face = "F" -> <<"z", 1, -1>>
    [] face = "B" -> <<"z", -1, 1>>

C10_Direction(m) == IF m.invert THEN -C10_Triple(m.face)[3] ELSE C10_Triple(m.face)[3]

\* C10: an accepted rotateFace(face, invert) is the rotateLayer of the axis, the
\* layer index and the direction of the table, the direction negated, and nothing
\* else, when invert is set.
C10_NotationMapping ==
  [][ret' = "promise" =>
       /\ Len(moveLog') = Len(moveLog) + 1
       /\ \E duration \in Durations :
            RotateLayer(C10_Triple(moveLog'[Len(moveLog')].face)[1],
                        C10_Triple(moveLog'[Len(moveLog')].face)[2],
                        C10_Direction(moveLog'[Len(moveLog')]),
                        duration)]_vars

C10_Witness ==
  /\ ret = "promise"
  /\ isAnimating
  /\ LastMove = [face |-> "L", invert |-> TRUE]
  /\ move.axis = "x" /\ move.index = -1 /\ move.direction = -1

\* the cubies that hang from the pivot
OnPivot == {i \in Cubies : cubies[i].parent = "pivot"}

\* C11: at most one animation loop is pending, it is the loop of the move that
\* was accepted last, and the cubies that hang from the pivot are the ones that
\* move selected; with no loop pending nothing hangs from the pivot.
C11_SingleMove ==
  /\ pendingFrames <= 1
  /\ pendingFrames = 1 => (isAnimating /\ move.id = Len(moveLog))
  /\ OnPivot = activeCubies
  /\ pendingFrames = 0 => OnPivot = {}

C11_Witness ==
  /\ pendingFrames = 1
  /\ callbacks = <<1>>
  /\ move.id = 2
  /\ ret = "false"
  /\ Cardinality(OnPivot) = 9

\* C12, as stated: on every frame of an accepted move, whatever its duration and
\* whatever the clock reads, progress lies in [0, 1], so eased lies in [0, 1] and
\* the angle of the pivot about the axis of the move is at most a quarter turn.
C12_ProgressClamp ==
  isAnimating =>
    /\ ProgressNum(elapsed, move.duration) >= 0
    /\ ProgressNum(elapsed, move.duration) <= Abs(move.duration)
    /\ EasedNum(elapsed, move.duration) >= 0
    /\ EasedNum(elapsed, move.duration) <= Cube(Abs(move.duration))
    /\ Abs(pivot.rotation[AxisNo(move.axis)]) <= QuarterTurn

\* C13: whenever the busy flag is clear, the rotation and the position of the
\* pivot are zero, no cubie hangs from the pivot and all 27 cubies hang from the
\* scene; and the busy flag is set exactly while cubies hang from the pivot.
C13_PivotTransient ==
  /\ ~isAnimating =>
       /\ pivot.rotation = <<0, 0, 0>>
       /\ pivot.position = <<0, 0, 0>>
       /\ \A i \in Cubies : cubies[i].parent = "scene"
  /\ isAnimating <=> (\E i \in Cubies : cubies[i].parent = "pivot")

C13_Witness ==
  /\ ~isAnimating
  /\ Len(firedLog) = 2
  /\ callbacks # <<>>
  /\ cubies # InitCubies
  /\ \E i \in Cubies : cubies[i].rotation # <<0, 0, 0>>

\* every cubie of cs hangs from the scene, at a grid point, with right angles
SnappedIdle(cs) ==
  \A i \in Cubies :
    /\ cs[i].parent = "scene"
    /\ \A k \in 1..3 : cs[i].position[k] \in {-SnapUnit, 0, SnapUnit}
    /\ \A k \in 1..3 : cs[i].rotation[k] % QuarterTurn = 0

\* C14: when onMoveComplete is called for a move, the cubies of the move are
\* back under the scene and snapped, the pivot is reset and the busy flag is
\* clear, and the promise of the move is not resolved yet; the promise of an
\* observed move is resolved only after its onMoveComplete was called; and the
\* calls of onMoveComplete come in the order in which the moves were accepted.
C14_CompletionOrder ==
  [][/\ firedLog' # firedLog =>
          /\ Len(firedLog') = Len(firedLog) + 1
          /\ \A j \in 1..Len(firedLog') : firedLog'[j] = j
          /\ SnappedIdle(cubies')
          /\ pivot'.rotation = <<0, 0, 0>>
          /\ ~isAnimating'
          /\ Len(firedLog') \notin Range(resolvedLog')
     /\ (resolvedLog' # resolvedLog /\ onMoveComplete) =>
          /\ Len(resolvedLog') = Len(resolvedLog) + 1
          /\ resolvedLog'[Len(resolvedLog')] \in Range(firedLog)
          /\ resolvedLog'[Len(resolvedLog')] \notin Range(resolvedLog)
     /\ (resolvedLog' # resolvedLog /\ ~onMoveComplete) =>
          /\ SnappedIdle(cubies')
          /\ pivot'.rotation = <<0, 0, 0>>
          /\ ~isAnimating'
          /\ resolvedLog' = Append(resolvedLog, Len(resolvedLog) + 1)]_vars

C14_Witness ==
  /\ firedLog = <<1, 2>>
  /\ resolvedLog = <<2, 1>>
  /\ cubies # InitCubies

\* C15, as stated: a rotateLayer call that is not refused as busy and whose
\* layer filter selects a number of cubies other than 9 does not go on as a
\* move: it returns no promise of a move, sets no busy flag, schedules no
\* frame, calls no onMoveComplete and resolves nothing with true.
C15_SelectionAnomaly ==
  [][\A axis \in Axes, index \in LayerIndices, direction \in {-1, 1},
        duration \in SeqDurations :
       ( /\ ~isAnimating
         /\ Cardinality(SelectLayer(cubies, pivot, axis, index)) # 9
         /\ RotateLayer(axis, index, direction, duration) )
       => /\ ret' # "promise"
          /\ ~isAnimating'
          /\ pendingFrames' = pendingFrames
          /\ firedLog' = firedLog
          /\ resolvedLog' = resolvedLog]_vars

\* the cubies whose position, rotation or parent a step changes
Changed == {i \in Cubies : cubies'[i] # cubies[i]}

\* the cubies of cs in the layer of a face: those at +/-1.02 on its axis
FaceLayer(cs, face) ==
  {i \in Cubies :
     cs[i].position[AxisNo(C10_Triple(face)[1])] = C10_Triple(face)[2] * SnapUnit}

\* C16: a step that accepts a move changes the 9 cubies of the layer of its face
\* and no other; any later step of the move (a frame, the cleanup with its
\* ungrouping and snapping) changes none but the cubies the move selected; and
\* no other step changes any cubie.  So the 18 other cubies keep their
\* position, orientation and parent at every step.
C16_OthersUntouched ==
  [][/\ Cardinality(Changed) <= 9
     /\ ret' = "promise" => Changed = FaceLayer(cubies, moveLog'[Len(moveLog')].face)
     /\ (ret' # "promise" /\ isAnimating) => Changed \subseteq activeCubies
     /\ (ret' # "promise" /\ ~isAnimating) => Changed = {}]_vars

C16_Witness ==
  /\ ~isAnimating
  /\ Len(resolvedLog) = 2
  /\ Cardinality({i \in Cubies : cubies[i] # InitCubies[i]}) > 9
  /\ \E i \in Cubies \ {14} : cubies[i] = InitCubies[i]

\* the positions the cubies of S have in cs
PositionsOf(cs, S) == {cs[i].position : i \in S}

\* C17: in every idle state the 27 cubies are at 27 different points of the grid
\* {-1.02, 0, 1.02}^3 and the cubie built at the origin is as it was built; and
\* with respect to the cube as it was when the last move was accepted, every
\* cubie has kept its coordinate on the axis of that move, the cubies outside
\* the layer of the move have kept their position, and the cubies of the layer
\* occupy the same 9 points as before.
C17_Permutation ==
  ~isAnimating =>
    /\ \A i \in Cubies : \A k \in 1..3 : cubies[i].position[k] \in {-SnapUnit, 0, SnapUnit}
    /\ \A i, j \in Cubies : i # j => cubies[i].position # cubies[j].position
    /\ \A i \in Cubies : InitCubies[i].position = <<0, 0, 0>> => cubies[i] = InitCubies[i]
    /\ Len(snaps) > 0 =>
         /\ \A i \in Cubies :
              cubies[i].position[AxisNo(C10_Triple(LastMove.face)[1])]
                = snaps[Len(snaps)][i].position[AxisNo(C10_Triple(LastMove.face)[1])]
         /\ \A i \in Cubies \ FaceLayer(snaps[Len(snaps)], LastMove.face) :
              cubies[i].position = snaps[Len(snaps)][i].position
         /\ PositionsOf(cubies, FaceLayer(snaps[Len(snaps)], LastMove.face))
              = PositionsOf(snaps[Len(snaps)], FaceLayer(snaps[Len(snaps)], LastMove.face))

C17_Witness ==
  /\ ~isAnimating
  /\ Len(moveLog) >= 2
  /\ Cardinality({i \in Cubies : cubies[i].position # InitCubies[i].position}) > 8
  /\ Cardinality(PositionsOf(cubies, Cubies)) = 27

\* the rotation of the pivot after an exact quarter turn for the move m
QuarterTurnOf(m) ==
  [k \in 1..3 |-> IF k = AxisNo(C10_Triple(m.face)[1])
                  THEN QuarterTurn * C10_Direction(m) ELSE 0]

\* where an exact quarter turn of the pivot takes a grid point and a mesh
\* rotation, with no error and no rounding
TurnedPosition ==
  [pr \in PivotTurns |-> [p \in GridPoints |-> AttachedPosition(p, pr, 0)] @@ <<>>] @@ <<>>

TurnedRotation ==
  [pr \in PivotTurns |-> [r \in RightAngles |-> AttachedRotation(r, pr, 0)] @@ <<>>] @@ <<>>

\* the same angles, up to whole turns
SameAngles(a, b) == \A k \in 1..3 : (a[k] - b[k]) % 360 = 0

\* C18: once a move has completed, the cubies of its layer are where an exact
\* quarter turn takes them from the cube as it was when the move was accepted,
\* and the others are as they were: the outcome is a function of that cube, the
\* face and invert alone, the same for every duration and every number and
\* timing of frames.
C18_TimingIndependence ==
  (~isAnimating /\ Len(snaps) > 0) =>
    \A i \in Cubies :
      IF i \in FaceLayer(snaps[Len(snaps)], LastMove.face)
      THEN /\ cubies[i].position
                = TurnedPosition[QuarterTurnOf(LastMove)][snaps[Len(snaps)][i].position]
           /\ SameAngles(cubies[i].rotation,
                         TurnedRotation[QuarterTurnOf(LastMove)][snaps[Len(snaps)][i].rotation])
           /\ cubies[i].parent = "scene"
      ELSE cubies[i] = snaps[Len(snaps)][i]

C18_Witness ==
  /\ ~isAnimating
  /\ Len(moveLog) = 2
  /\ moveLog[1].invert
  /\ moveLog[1].face # LastMove.face
  /\ Len(resolvedLog) = 2
  /\ cubies # snaps[Len(snaps)]

====
